---- MODULE Spec2Model ----
(***************************************************************************)
(* Model of the slack-mcp HTTP facade: the Express middleware chain        *)
(* (express.json, requireApiKey), the REST handlers of createApp, the      *)
(* SlackService capability client, and the session-addressed /mcp mount    *)
(* (mountMcp) with its module-level transports map.                        *)
(*                                                                         *)
(* Node runs the handlers on one thread: a handler runs without            *)
(* interruption up to its next await, so every action below is the code    *)
(* between two suspension points of one request.                           *)
(***************************************************************************)
EXTENDS Integers, Sequences, FiniteSets, TLC

\* ------------------------------------------------------------------ bounds
\* Requests that can be suspended at an await at the same time.
MaxInFlight == 2
\* Sessions (calls of randomUUID) in one run.
MaxSessions == 2
\* Requests received in one run.
MaxRequests == 3

\* ------------------------------------------------------------------ values
\* JavaScript's undefined: an absent header, an absent property.
Undefined == "<undefined>"
\* The configured API key and the header values a caller may send.
ApiKey == "test-key"
ProvidedKeys == {Undefined, ApiKey, "wrong-key"}

\* The values randomUUID can yield in a run.
UuidNames == <<"uuid-1", "uuid-2", "uuid-3", "uuid-4">>
UuidSpace == {UuidNames[i] : i \in 1..MaxSessions}
\* The mcp-session-id header: absent, empty, or some id.
SessionHeaders == {Undefined, ""} \cup UuidSpace

\* JavaScript truthiness of a header or body string.
Truthy(v) == v # Undefined /\ v # ""

\* Request bodies as express.json and isInitializeRequest see them: one that does
\* not parse, an initialize call, any other parsed body (a tool call, another
\* method, a notification: the engine tells them apart, not the dispatcher).
McpBodies == {"malformed", "initialize", "call"}

VARIABLES
    transports,   \* the Map of mcp.ts: session id -> index of its transport in objs
    objs,         \* every StreamableHTTPServerTransport constructed so far, in order
    inflight,     \* the requests whose handler is suspended at an await
    resp,         \* the request whose handler has just finished, until it is delivered
    received,     \* number of requests received so far
    slack         \* the SlackService shared by the routes and the tools: its two clients

vars == <<transports, objs, inflight, resp, received, slack>>

\* ---------------------------------------------------------------- requests
NoResult == [ok |-> FALSE, error |-> Undefined, detail |-> Undefined, data |-> Undefined]

\* What an upstream Web API call settles with: it resolves, or it rejects with
\* an Error carrying data.error, an Error without it, an Error whose data.error
\* is the empty string, a thrown string, or null/undefined.
Resolved == [rejected |-> FALSE, nullish |-> FALSE, data_error |-> Undefined, message |-> Undefined]
Rejections ==
    {[rejected |-> TRUE, nullish |-> FALSE, data_error |-> "channel_not_found",
      message |-> "An API error occurred: channel_not_found"],
     [rejected |-> TRUE, nullish |-> FALSE, data_error |-> Undefined, message |-> "socket hang up"],
     [rejected |-> TRUE, nullish |-> FALSE, data_error |-> "", message |-> "empty code"],
     [rejected |-> TRUE, nullish |-> FALSE, data_error |-> Undefined, message |-> Undefined],
     [rejected |-> TRUE, nullish |-> TRUE, data_error |-> Undefined, message |-> Undefined]}
Upstream == {Resolved} \cup Rejections

\* One request: what it carried (route, key, sid, body, params), where its
\* handler stands (pc), what the handler did (t: the transport it forwarded to,
\* created: it made a session, tool/op/calls: the SlackService calls it made,
\* out: what the upstream call settled with, fault/sent: a fault during
\* forwarding and whether headers were sent by then) and what the caller got
\* (status, code, kind, payload, answers, escaped). known and stale record
\* what the registry and the closed sessions were when the handler looked
\* the session id up; again records that the transport this request made
\* close had closed before. For a tool call, name is the tool the call named
\* and params its arguments; passed is what the handler passed to the
\* SlackService operation, api the number of upstream API calls made for it,
\* client the WebClient the operation called.
Idle ==
    [pc |-> "idle", route |-> "", key |-> Undefined, sid |-> Undefined, body |-> "",
     params |-> <<>>, known |-> FALSE, stale |-> FALSE,
     t |-> 0, created |-> FALSE, name |-> "", tool |-> "", op |-> "", passed |-> <<>>,
     calls |-> 0, api |-> 0, client |-> "", out |-> Resolved,
     fault |-> FALSE, sent |-> FALSE, again |-> FALSE,
     status |-> 0, code |-> 0, kind |-> "", payload |-> <<>>, answers |-> 0,
     escaped |-> FALSE]

\* No finished request waits for delivery: handlers may run.
Running == resp.pc = "idle"

\* A new request can be received.
CanReceive ==
    /\ Running
    /\ Cardinality(inflight) < MaxInFlight
    /\ received < MaxRequests

\* The handler reaches an await: the request joins the suspended ones.
Suspend(rec) ==
    /\ inflight' = inflight \cup {rec}
    /\ UNCHANGED resp

\* The handler of a request received in this step has finished.
Finish(rec) ==
    /\ resp' = rec
    /\ UNCHANGED inflight

\* A suspended request moves to its next await.
Move(old, new) ==
    /\ inflight' = (inflight \ {old}) \cup {new}
    /\ UNCHANGED resp

\* The handler of a suspended request has finished.
Complete(old, new) ==
    /\ inflight' = inflight \ {old}
    /\ resp' = new

\* res.status(s).json(...) / res.status(s).send(...): the handler answers and returns.
Answer(rec, status, code, kind) ==
    [rec EXCEPT !.pc = "done", !.status = status, !.code = code, !.kind = kind,
                !.answers = rec.answers + 1]

\* ------------------------------------------------------------- middleware
\* express.json(): a body that does not parse is answered 400 by Express's
\* error handler and no later middleware or route runs.
expressJson(body) == IF body = "malformed" THEN "reject" ELSE "next"

\* requireApiKey(apiKey): provided === apiKey calls next(), anything else
\* answers 401 {ok: false, error: "unauthorized", ...}.
requireApiKey_open(provided) == TRUE
requireApiKey(provided) == provided = ApiKey

\* checkAuth of mountMcp: provided !== apiKey answers 401 and returns false.
checkAuth(provided) == provided = ApiKey

\* isInitializeRequest(req.body)
isInitializeRequest_always(body) == TRUE
isInitializeRequest(body) == body = "initialize"

\* randomUUID(): a value no earlier call returned. The ids are opaque, so the
\* first name not generated yet stands for any fresh value; the set is empty
\* when the run's supply of names is used up.
Issued == {objs[i].sid : i \in 1..Len(objs)}
randomUUID_repeat == IF Len(objs) < MaxSessions THEN {UuidNames[1]} ELSE {}
randomUUID == {UuidNames[i] : i \in {j \in 1..MaxSessions :
                  /\ UuidNames[j] \notin Issued
                  /\ \A k \in 1..(j - 1) : UuidNames[k] \in Issued}}

\* transports.has(id), transports.get(id), transports.delete(id), transports.set(id, t)
\* (get of a missing key yields undefined, written 0 here).
Has_everIssued(id) == id \in Issued
Has(id) == id \in DOMAIN transports
Get_latest(id) == IF id \in DOMAIN transports THEN Len(objs) ELSE 0
Get_first(id) == IF transports = << >> THEN 0 ELSE 1
Get(id) == IF id \in DOMAIN transports THEN transports[id] ELSE 0
Delete_noop(m, id) == m
Delete_orAny(m, id) == IF id \in DOMAIN m THEN [k \in (DOMAIN m) \ {id} |-> m[k]] ELSE << >>
Delete(m, id) == [k \in (DOMAIN m) \ {id} |-> m[k]]
Set_skip(m, id, t) == m
Set(m, id, t) == [k \in (DOMAIN m) \cup {id} |-> IF k = id THEN t ELSE m[k]]

\* ------------------------------------------------------------ SlackService

SlackOps == {"sendMessage", "getChannelHistory", "searchMessages", "searchUsers", "openDm"}

\* The tokens a SlackService may be constructed with; a WebClient is written
\* as the token it was made with.
BotToken == "xoxb-bot"
UserTokens == {Undefined, "", "xoxp-user"}

\* constructor(botToken, userToken): client always, userClient if (userToken).
NewSlackService(botToken, userToken) ==
    [client |-> botToken,
     userClient |-> IF Truthy(userToken) THEN userToken ELSE Undefined]

\* The client each operation calls: this.userClient || this.client in
\* getChannelHistory and searchMessages, this.client in the other three.
ClientFor_userFirstEverywhere(op) ==
    IF slack.userClient # Undefined THEN slack.userClient ELSE slack.client
ClientFor(op) ==
    IF op \in {"getChannelHistory", "searchMessages"}
    THEN (IF slack.userClient # Undefined THEN slack.userClient ELSE slack.client)
    ELSE slack.client

\* The success object each operation builds from the upstream response.
SuccessData ==
    [sendMessage |-> "ts,channel", getChannelHistory |-> "messages,next_cursor",
     searchMessages |-> "messages", searchUsers |-> "users", openDm |-> "channel"]

\* The catch block shared by the five operations:
\* {ok: false, error: err?.data?.error || "slack_error", detail: err.message}.
CatchResult(err) ==
    [ok |-> FALSE,
     error |-> IF Truthy(err.data_error) THEN err.data_error ELSE "slack_error",
     detail |-> err.message,
     data |-> Undefined]

\* err.message on null or undefined throws a TypeError inside the catch block,
\* so the operation's promise rejects.
CatchThrows(err) == err.nullish

\* The upstream API calls one operation makes: each method awaits one client
\* call inside its try block, with no loop around it.
UpstreamCalls_retryOnFailure(op, out) == IF out.rejected THEN 2 ELSE 1
UpstreamCalls(op, out) == 1

\* One SlackService operation, given what its upstream call settled with.
SlackService(op, out) ==
    IF ~out.rejected
    THEN [threw |-> FALSE,
          result |-> [ok |-> TRUE, error |-> Undefined, detail |-> Undefined,
                      data |-> SuccessData[op]]]
    ELSE IF CatchThrows(out) THEN [threw |-> TRUE, result |-> NoResult]
    ELSE [threw |-> FALSE, result |-> CatchResult(out)]

\* JSON.stringify of a result object: its properties in order, those whose
\* value is undefined left out.
JsonStringify(result) ==
    SelectSeq(<< <<"ok", IF result.ok THEN "true" ELSE "false">>,
                 <<"error", result.error>>,
                 <<"detail", result.detail>>,
                 <<"data", result.data>> >>,
              LAMBDA kv : kv[2] # Undefined)

\* JSON.parse on the caller's side: the value of a property, undefined when absent.
JsonField(text, key) ==
    IF \E i \in 1..Len(text) : text[i][1] = key
    THEN text[CHOOSE i \in 1..Len(text) : text[i][1] = key][2]
    ELSE Undefined

\* ------------------------------------------------------------- transports
\* new StreamableHTTPServerTransport({sessionIdGenerator: () => newSessionId}) with
\* transport.onclose = () => transports.delete(newSessionId): sid is what the
\* generator yields, onclose the key the callback deletes, server whether an
\* McpServer has been connected, tools the tools of that server, closed
\* whether the transport has closed.
NewTransport_ownGenerator(id) ==
    [sid |-> "uuid-of-generator", onclose |-> id, server |-> FALSE, tools |-> {},
     closed |-> FALSE]
NewTransport_noOnclose(id) ==
    [sid |-> id, onclose |-> Undefined, server |-> FALSE, tools |-> {}, closed |-> FALSE]
NewTransport(id) ==
    [sid |-> id, onclose |-> id, server |-> FALSE, tools |-> {}, closed |-> FALSE]

\* transport.close(): marks the transport closed and calls its onclose callback.
CloseTransport_clearAll(t) ==
    /\ objs' = [objs EXCEPT ![t].closed = TRUE]
    /\ transports' = << >>
CloseTransport(t) ==
    /\ objs' = [objs EXCEPT ![t].closed = TRUE]
    /\ transports' = Delete(transports, objs[t].onclose)

\* ------------------------------------------------------------- POST /mcp
ClosedIds == {objs[i].sid : i \in {j \in 1..Len(objs) : objs[j].closed}}

NewRequest(route, key, sid, body) ==
    [Idle EXCEPT !.route = route, !.key = key, !.sid = sid, !.body = body,
                 !.known = sid \in DOMAIN transports, !.stale = sid \in ClosedIds]

\* !sessionId && isInitializeRequest(req.body): the branch that makes a session.
IsCreate_anySessionId(sid, body) == isInitializeRequest(body)
IsCreate(sid, body) == ~Truthy(sid) /\ isInitializeRequest(body)

\* app.post("/mcp"): from the request's arrival to the handler's first await.
McpPost ==
    /\ UNCHANGED slack
    /\ CanReceive
    /\ received' = received + 1
    /\ \E key \in ProvidedKeys, sid \in SessionHeaders, body \in McpBodies :
         LET rec == NewRequest("POST /mcp", key, sid, body) IN
         IF expressJson(body) = "reject"
         THEN /\ Finish(Answer(rec, 400, 0, "parse_error"))
              /\ UNCHANGED <<transports, objs>>
         ELSE IF ~checkAuth(key)
         THEN /\ Finish(Answer(rec, 401, -32000, "rpc_error"))
              /\ UNCHANGED <<transports, objs>>
         ELSE IF Truthy(sid) /\ Has(sid)
         THEN \* transport = transports.get(sessionId); await transport.handleRequest
              /\ Suspend([rec EXCEPT !.pc = "forwarded", !.t = Get(sid)])
              /\ UNCHANGED <<transports, objs>>
         ELSE IF IsCreate(sid, body)
         THEN \* new transport, transports.set, onclose, await server.connect
              \E id \in randomUUID :
                /\ objs' = Append(objs, NewTransport(id))
                /\ transports' = Set(transports, id, Len(objs) + 1)
                /\ Suspend([rec EXCEPT !.pc = "connecting", !.t = Len(objs) + 1,
                                       !.created = TRUE])
         ELSE /\ Finish(Answer(rec, 400, -32000, "rpc_error"))
              /\ UNCHANGED <<transports, objs>>

\* What becomes of a fault that leaves an async Express handler: an unhandled
\* promise rejection (Express 4: the request stays unanswered) or Express's own
\* error handler (Express 5: a 500 page, when nothing was sent yet).
Escape(rec, sent) ==
    {[rec EXCEPT !.pc = "done", !.escaped = TRUE, !.kind = "unhandled_rejection",
                 !.answers = IF sent THEN 1 ELSE 0,
                 !.status = IF sent THEN 200 ELSE 0],
     [rec EXCEPT !.pc = "done", !.escaped = TRUE, !.kind = "express_error",
                 !.answers = 1, !.status = IF sent THEN 200 ELSE 500]}

\* The catch block of POST /mcp: answers -32603 unless res.headersSent.
CatchPost_noHeadersCheck(rec, sent) ==
    [Answer(rec, 500, -32603, "rpc_error") EXCEPT !.answers = IF sent THEN 2 ELSE 1]
CatchPost(rec, sent) ==
    IF ~sent THEN Answer(rec, 500, -32603, "rpc_error")
    ELSE Answer(rec, 200, 0, "engine_partial")

\* How a fault raised by handleRequest leaves each handler: only POST /mcp
\* wraps the call in try/catch.
OnForwardFault(rec, sent) ==
    IF rec.route = "POST /mcp" THEN {CatchPost(rec, sent)} ELSE Escape(rec, sent)

\* ------------------------------------------------- createMcpServer's tools
\* The five tools and the SlackService operation each handler awaits.
ToolOp_swapped ==
    [send_message |-> "sendMessage", read_dm_history |-> "getChannelHistory",
     search_messages |-> "searchUsers", find_user |-> "searchUsers",
     open_dm |-> "openDm"]
ToolOp ==
    [send_message |-> "sendMessage", read_dm_history |-> "getChannelHistory",
     search_messages |-> "searchMessages", find_user |-> "searchUsers",
     open_dm |-> "openDm"]
ToolNames == DOMAIN ToolOp

\* createMcpServer(slack): a new McpServer with the five tools registered.
createMcpServer == ToolNames

\* The parameters each tool declares, in the order its handler uses them, and
\* those declared without .optional().
ToolParams ==
    [send_message |-> <<"channel", "text">>, read_dm_history |-> <<"channel_id", "limit">>,
     search_messages |-> <<"query", "count">>, find_user |-> <<"query">>,
     open_dm |-> <<"user_id">>]
Required_textOptional ==
    [send_message |-> {"channel"}, read_dm_history |-> {"channel_id"},
     search_messages |-> {"query"}, find_user |-> {"query"}, open_dm |-> {"user_id"}]
Required ==
    [send_message |-> {"channel", "text"}, read_dm_history |-> {"channel_id"},
     search_messages |-> {"query"}, find_user |-> {"query"}, open_dm |-> {"user_id"}]

\* z.number().optional().default(20): numbers are written as decimal numerals.
ZodDefault(v) == IF v = Undefined THEN "20" ELSE v

\* The arguments a caller may send for a tool: each parameter absent or given.
ToolInputs(name) ==
    IF Len(ToolParams[name]) = 1
    THEN {<<a>> : a \in {Undefined, "X01"}}
    ELSE {<<a, b>> : a \in {Undefined, "X01"},
                     b \in {Undefined, IF name = "send_message" THEN "Hello" ELSE "5"}}

\* The engine parses the arguments against the tool's shape before it calls
\* the handler: a required parameter that is absent fails the parse, an
\* optional one that is absent takes its default.
ZodParse(name, params) ==
    [ok |-> \A i \in 1..Len(params) :
               ToolParams[name][i] \in Required[name] => params[i] # Undefined,
     value |-> [i \in 1..Len(params) |->
                  IF ToolParams[name][i] \in Required[name] THEN params[i]
                  ELSE ZodDefault(params[i])]]

\* await server.connect(transport) settles: the engine is bound and the first
\* call is forwarded, or connect rejected and the catch block answers.
McpPostConnected(rec) ==
    /\ UNCHANGED slack
    /\ Running
    /\ rec.pc = "connecting"
    /\ UNCHANGED <<transports, received>>
    /\ \/ /\ objs' = [objs EXCEPT ![rec.t].server = TRUE, ![rec.t].tools = createMcpServer]
          /\ Move(rec, [rec EXCEPT !.pc = "forwarded"])
       \/ /\ Complete(rec, CatchPost([rec EXCEPT !.fault = TRUE], FALSE))
          /\ UNCHANGED objs

\* ------------------------------------------------- GET /mcp and DELETE /mcp
\* The two handlers have the same body (part_002 lines 131-139 and 141-149).
\* !sessionId || !transports.has(sessionId) rejects; this is its negation.
SessionKnown_truthyOnly(sid) == Truthy(sid)
SessionKnown(sid) == Truthy(sid) /\ Has(sid)

McpSessionVerb(route) ==
    /\ UNCHANGED slack
    /\ CanReceive
    /\ received' = received + 1
    /\ UNCHANGED <<transports, objs>>
    /\ \E key \in ProvidedKeys, sid \in SessionHeaders, body \in {"", "malformed"} :
         LET rec == NewRequest(route, key, sid, body) IN
         IF expressJson(body) = "reject"
         THEN Finish(Answer(rec, 400, 0, "parse_error"))
         ELSE IF ~checkAuth(key)
         THEN Finish(Answer(rec, 401, -32000, "rpc_error"))
         ELSE IF ~SessionKnown(sid)
         THEN Finish(Answer(rec, 400, 0, "plain_text"))
         ELSE Suspend([rec EXCEPT !.pc = "forwarded", !.t = Get(sid)])

McpGet == McpSessionVerb("GET /mcp")

McpDelete == McpSessionVerb("DELETE /mcp")

\* --------------------------------------------- transport.handleRequest
\* The transport and its engine answer the forwarded request themselves (a
\* result, or a protocol error of their own) and handleRequest resolves.
EngineReply(rec) ==
    /\ UNCHANGED slack
    /\ Running
    /\ rec.pc = "forwarded"
    /\ \E kind \in {"engine_result", "engine_error"} :
         Complete(rec, Answer(rec, IF kind = "engine_result" THEN 200 ELSE 400, 0, kind))
    /\ UNCHANGED <<transports, objs, received>>

\* A forwarded DELETE makes the transport close itself, which runs onclose,
\* before it answers 200.
EngineClose(rec) ==
    /\ UNCHANGED slack
    /\ Running
    /\ rec.pc = "forwarded"
    /\ rec.route = "DELETE /mcp"
    /\ CloseTransport(rec.t)
    /\ Complete(rec, Answer([rec EXCEPT !.again = objs[rec.t].closed], 200, 0, "engine_result"))
    /\ UNCHANGED received

\* transport.handleRequest rejects, before or after the engine started a response.
EngineFault(rec) ==
    /\ UNCHANGED slack
    /\ Running
    /\ rec.pc = "forwarded"
    /\ \E sent \in BOOLEAN :
         \E out \in OnForwardFault([rec EXCEPT !.fault = TRUE, !.sent = sent], sent) :
            Complete(rec, out)
    /\ UNCHANGED <<transports, objs, received>>

\* The handler's return value for a result of its SlackService operation:
\* {content: [{type: "text", text: JSON.stringify(result)}]}.
ToolReply_failureAsError(rec, result) ==
    IF result.ok
    THEN [Answer(rec, 200, 0, "tool_result") EXCEPT !.payload = JsonStringify(result)]
    ELSE Answer(rec, 200, -32603, "rpc_error")
ToolReply(rec, result) ==
    [Answer(rec, 200, 0, "tool_result") EXCEPT !.payload = JsonStringify(result)]

\* The engine dispatches a forwarded tools/call to the tool's handler, which
\* calls its SlackService operation and awaits it.
\* A call that names a tool the server does not have, or whose arguments fail
\* the parse, is answered by the engine with a protocol error.
EngineToolCall(rec) ==
    /\ UNCHANGED slack
    /\ Running
    /\ rec.pc = "forwarded"
    /\ rec.route = "POST /mcp"
    /\ rec.body = "call"
    /\ \E name \in ToolNames \cup {"no_such_tool"} :
         IF name \notin objs[rec.t].tools
         THEN Complete(rec, Answer([rec EXCEPT !.name = name], 200, -32602, "engine_rpc_error"))
         ELSE \E params \in ToolInputs(name) :
                LET got == [rec EXCEPT !.name = name, !.params = params] IN
                IF ~ZodParse(name, params).ok
                THEN Complete(rec, Answer(got, 200, -32602, "engine_rpc_error"))
                ELSE Move(rec, [got EXCEPT !.pc = "await_tool", !.tool = name,
                                           !.op = ToolOp[name],
                                           !.passed = ZodParse(name, params).value,
                                           !.client = ClientFor(ToolOp[name]),
                                           !.calls = rec.calls + 1])
    /\ UNCHANGED <<transports, objs, received>>

\* The awaited operation settles. A handler that throws is answered by the
\* engine with an isError result carrying the error's message.
ToolReturn(rec) ==
    /\ UNCHANGED slack
    /\ Running
    /\ rec.pc = "await_tool"
    /\ \E out \in Upstream :
         LET s == SlackService(rec.op, out)
             got == [rec EXCEPT !.out = out, !.api = rec.api + UpstreamCalls(rec.op, out)] IN
         Complete(rec, IF s.threw THEN Answer(got, 200, 0, "tool_is_error")
                       ELSE ToolReply(got, s.result))
    /\ UNCHANGED <<transports, objs, received>>

\* ----------------------------------------------------------- REST routes
\* Values of a body field or a query parameter: absent, empty, or given.
FieldValues(v) == {Undefined, "", v}

\* The limit and count query strings a caller may send.
QueryNumbers == {Undefined, "", "5", "7days", "abc"}

\* parseInt(s, 10) on the strings of the model: leading digits, else NaN.
parseInt(s) ==
    CASE s = "5" -> "5"
      [] s = "20" -> "20"
      [] s = "7days" -> "7"
      [] OTHER -> "NaN"

\* v || d
OrElse_keep(v, d) == v
OrElse(v, d) == IF Truthy(v) THEN v ELSE d

\* res.status(result.ok ? 200 : 500)
RestStatus_always200(result) == 200
RestStatus(result) == IF result.ok THEN 200 ELSE 500

\* res.status(result.ok ? 200 : 500).json(result)
RestReply(rec, result) ==
    [Answer(rec, RestStatus(result), 0, "result") EXCEPT !.payload = JsonStringify(result)]

\* The handler calls a SlackService operation and awaits it.
CallSlack(rec, op, args) ==
    Suspend([rec EXCEPT !.pc = "await_slack", !.op = op, !.passed = args,
                        !.client = ClientFor(op), !.calls = rec.calls + 1])

\* app.get("/health"): registered after app.use("/api", ...), which does not
\* match its path.
Health ==
    /\ UNCHANGED slack
    /\ CanReceive
    /\ received' = received + 1
    /\ UNCHANGED <<transports, objs>>
    /\ \E key \in ProvidedKeys, body \in {"", "malformed"} :
         LET rec == NewRequest("GET /health", key, Undefined, body) IN
         IF expressJson(body) = "reject"
         THEN Finish(Answer(rec, 400, 0, "parse_error"))
         ELSE Finish([Answer(rec, 200, 0, "healthy") EXCEPT
                         !.payload = << <<"ok", "true">>, <<"status", "healthy">> >>])

\* What req.body is for a request that carries no body: express.json() parses
\* nothing, and the body is the {} of body-parser 1.x (Express 4) or is left
\* undefined by body-parser 2.x (Express 5).
UnparsedBody == {"{}", Undefined}

\* res.status(400).json({ok: false, error: "bad_request", detail: ...})
BadRequest(rec, detail) ==
    [Answer(rec, 400, 0, "bad_request") EXCEPT
        !.payload = JsonStringify([ok |-> FALSE, error |-> "bad_request",
                                   detail |-> detail, data |-> Undefined])]

\* if (!channel || !text) of the send handler, if (!query) of the search handler.
SendInvalid_missingOnly(channel, text) == channel = Undefined \/ text = Undefined
SendInvalid(channel, text) == ~Truthy(channel) \/ ~Truthy(text)
SearchInvalid(query) == ~Truthy(query)

\* app.post("/api/messages/send"). const {channel, text} = req.body throws a
\* TypeError when req.body is undefined; the rejection of the async handler
\* then reaches Express's error handler.
RestSend ==
    /\ UNCHANGED slack
    /\ CanReceive
    /\ received' = received + 1
    /\ UNCHANGED <<transports, objs>>
    /\ \E key \in ProvidedKeys, body \in {"json", "malformed", "none"},
          channel \in FieldValues("C01"), text \in FieldValues("Hello") :
         LET rec == [NewRequest("POST /api/messages/send", key, Undefined, body)
                        EXCEPT !.params = <<channel, text>>] IN
         /\ body = "none" => channel = Undefined /\ text = Undefined
         /\ IF expressJson(body) = "reject"
            THEN Finish(Answer(rec, 400, 0, "parse_error"))
            ELSE IF ~requireApiKey(key)
            THEN Finish(Answer(rec, 401, 0, "unauthorized"))
            ELSE \E parsed \in (IF body = "none" THEN UnparsedBody ELSE {"{...}"}) :
                 IF parsed = Undefined
                 THEN \E esc \in {e \in Escape([rec EXCEPT !.fault = TRUE], FALSE) :
                                     e.kind = "express_error"} : Finish(esc)
                 ELSE IF SendInvalid(channel, text)
                 THEN Finish(BadRequest(rec, "channel and text are required"))
                 ELSE CallSlack(rec, "sendMessage", <<channel, text>>)

\* app.get("/api/channels/:channelId/history")
RestHistory ==
    /\ UNCHANGED slack
    /\ CanReceive
    /\ received' = received + 1
    /\ UNCHANGED <<transports, objs>>
    /\ \E key \in ProvidedKeys, body \in {"", "malformed"}, limit \in QueryNumbers :
         LET rec == [NewRequest("GET /api/channels/:channelId/history", key, Undefined, body)
                        EXCEPT !.params = <<"C01", limit>>] IN
         IF expressJson(body) = "reject"
         THEN Finish(Answer(rec, 400, 0, "parse_error"))
         ELSE IF ~requireApiKey(key)
         THEN Finish(Answer(rec, 401, 0, "unauthorized"))
         ELSE CallSlack(rec, "getChannelHistory", <<"C01", parseInt(OrElse(limit, "20"))>>)

\* app.get("/api/search")
RestSearch ==
    /\ UNCHANGED slack
    /\ CanReceive
    /\ received' = received + 1
    /\ UNCHANGED <<transports, objs>>
    /\ \E key \in ProvidedKeys, body \in {"", "malformed"},
          query \in FieldValues("poke"), count \in QueryNumbers :
         LET rec == [NewRequest("GET /api/search", key, Undefined, body)
                        EXCEPT !.params = <<query, count>>] IN
         IF expressJson(body) = "reject"
         THEN Finish(Answer(rec, 400, 0, "parse_error"))
         ELSE IF ~requireApiKey(key)
         THEN Finish(Answer(rec, 401, 0, "unauthorized"))
         ELSE IF SearchInvalid(query)
         THEN Finish(BadRequest(rec, "query parameter is required"))
         ELSE CallSlack(rec, "searchMessages", <<query, parseInt(OrElse(count, "20"))>>)

\* The awaited SlackService operation settles and the REST handler answers; a
\* rejection of the operation leaves the handler, which has no try/catch.
RestSlackReturn(rec) ==
    /\ UNCHANGED slack
    /\ Running
    /\ rec.pc = "await_slack"
    /\ UNCHANGED <<transports, objs, received>>
    /\ \E out \in Upstream :
         LET s == SlackService(rec.op, out)
             got == [rec EXCEPT !.out = out, !.api = rec.api + UpstreamCalls(rec.op, out)] IN
         IF s.threw
         THEN \E esc \in Escape([got EXCEPT !.fault = TRUE], FALSE) : Complete(rec, esc)
         ELSE Complete(rec, RestReply(got, s.result))

\* The transport closes for a reason other than a DELETE call: the connection
\* drops or the engine closes it.
TransportClose_waits(t) ==
    /\ UNCHANGED slack
    /\ Running
    /\ t \in 1..Len(objs)
    /\ ~objs[t].closed
    /\ \A rec \in inflight : rec.t # t
    /\ CloseTransport(t)
    /\ UNCHANGED <<inflight, resp, received>>
TransportClose(t) ==
    /\ UNCHANGED slack
    /\ Running
    /\ t \in 1..Len(objs)
    /\ ~objs[t].closed
    /\ CloseTransport(t)
    /\ UNCHANGED <<inflight, resp, received>>

\* The response has been written out: the next event is handled.
Deliver ==
    /\ UNCHANGED slack
    /\ resp.pc = "done"
    /\ resp' = Idle
    /\ UNCHANGED <<transports, objs, inflight, received>>

Init ==
    /\ transports = << >>
    /\ objs = << >>
    /\ inflight = {}
    /\ resp = Idle
    /\ received = 0
    /\ slack = NewSlackService(BotToken, Undefined)

\* The same start for a SlackService constructed with any user token.
InitSlack ==
    /\ transports = << >>
    /\ objs = << >>
    /\ inflight = {}
    /\ resp = Idle
    /\ received = 0
    /\ \E userToken \in UserTokens : slack = NewSlackService(BotToken, userToken)

Next ==
    \/ McpPost
    \/ McpGet
    \/ McpDelete
    \/ \E rec \in inflight : McpPostConnected(rec)
    \/ \E rec \in inflight : EngineReply(rec)
    \/ \E rec \in inflight : EngineToolCall(rec)
    \/ \E rec \in inflight : ToolReturn(rec)
    \/ \E rec \in inflight : EngineClose(rec)
    \/ \E rec \in inflight : EngineFault(rec)
    \/ \E t \in 1..MaxSessions : TransportClose(t)
    \/ Deliver

\* The /mcp mount: the dispatcher, the sessions and their engines.
Spec == Init /\ [][Next]_vars

\* The /mcp mount over a SlackService with or without a user-token client.
SpecSlack == InitSlack /\ [][Next]_vars

\* The REST routes of createApp. They share no mutable state with the /mcp
\* mount (the SlackService is stateless), so they are explored on their own.
NextRest ==
    \/ Health
    \/ RestSend
    \/ RestHistory
    \/ RestSearch
    \/ \E rec \in inflight : RestSlackReturn(rec)
    \/ Deliver

SpecRest == Init /\ [][NextRest]_vars

\* The whole app: createApp's routes and the /mcp mount on one event loop.
NextAll == Next \/ NextRest

SpecAll == Init /\ [][NextAll]_vars

\* The event loop runs every callback that is ready: a finished response is
\* written out, and the continuation of a handler whose awaited SlackService
\* operation has settled is run.
Fairness ==
    /\ WF_vars(Deliver)
    /\ WF_vars(\E rec \in inflight : ToolReturn(rec))
    /\ WF_vars(\E rec \in inflight : RestSlackReturn(rec))

SpecFair == SpecAll /\ Fairness
\* ================================================================ properties
\* Every request the model holds: the suspended ones and the one just answered.
Requests == {rec \in inflight \cup {resp} : rec.pc # "idle"}

McpRoutes == {"POST /mcp", "GET /mcp", "DELETE /mcp"}
RestRoutes == {"POST /api/messages/send", "GET /api/channels/:channelId/history",
               "GET /api/search"}

\* A request received in this step was answered within the step.
AnsweredAtOnce == received' # received /\ resp'.pc = "done"

\* The registry and the transports are what they were.
RegistryUntouched == transports' = transports /\ objs' = objs

\* C1: every request to a protected route (/api/*, or any verb of /mcp) whose
\* x-api-key is absent or wrong is answered 401, and nothing downstream
\* happens: no SlackService call, no session, no forwarding to an engine.
C1_UnauthorizedIs401 ==
    \A rec \in Requests :
       (rec.route \in McpRoutes \cup RestRoutes /\ rec.key # ApiKey)
          => /\ rec.pc = "done"
             /\ rec.status = 401
             /\ rec.calls = 0
             /\ ~rec.created
             /\ rec.t = 0

\* C2: an authenticated POST /mcp without a session id and with an initialize
\* body creates a session whose id no earlier session had (live or closed); a
\* session that has not closed is in the registry under its id, and every POST
\* carrying an id is either forwarded to the transport created for that id or
\* rejected because the registry has no such id.
C2_FreshIdSameEngine ==
    /\ \A i, j \in 1..Len(objs) : i # j => objs[i].sid # objs[j].sid
    /\ \A t \in 1..Len(objs) :
          ~objs[t].closed => objs[t].sid \in DOMAIN transports /\ transports[objs[t].sid] = t
    /\ \A rec \in Requests :
          rec.route = "POST /mcp" /\ rec.key = ApiKey =>
             /\ (~Truthy(rec.sid) /\ rec.body = "initialize") =>
                   rec.created /\ rec.t \in 1..Len(objs)
             /\ (Truthy(rec.sid) /\ rec.body # "malformed") =>
                   IF rec.known THEN rec.t \in 1..Len(objs) /\ objs[rec.t].sid = rec.sid
                   ELSE rec.t = 0 /\ rec.pc = "done"

C2_Witness ==
    \E rec \in inflight :
       /\ rec.route = "POST /mcp" /\ rec.pc = "forwarded" /\ ~rec.created
       /\ Len(objs) = 2 /\ rec.t = 2 /\ rec.sid = objs[2].sid

\* C3: a request that carries the id of a session that had closed when the
\* handler looked it up is never forwarded; an authenticated POST gets the 400
\* protocol error with code -32000, an authenticated GET the 400 plain text.
C3_ClosedIdRejected ==
    \A rec \in Requests :
       rec.stale =>
          /\ rec.t = 0
          /\ rec.pc = "done"
          /\ (rec.key = ApiKey /\ rec.body # "malformed") =>
                /\ rec.status = 400
                /\ rec.route = "POST /mcp" => rec.code = -32000 /\ rec.kind = "rpc_error"
                /\ rec.route = "GET /mcp" => rec.kind = "plain_text"

C3_Witness ==
    /\ resp.pc = "done" /\ resp.stale /\ resp.route = "POST /mcp"
    /\ resp.status = 400 /\ resp.code = -32000

\* C4: an authenticated POST /mcp with no session id and a body that is not an
\* initialize call, or with a session id the registry does not hold (whatever
\* the body), is answered 400 with the -32000 error envelope; it creates no
\* session and no transport and leaves the registry as it was.
C4_Case(rec) ==
    /\ rec.route = "POST /mcp" /\ rec.key = ApiKey
    /\ \/ ~Truthy(rec.sid) /\ rec.body = "call"
       \/ Truthy(rec.sid) /\ ~rec.known /\ rec.body \in {"call", "initialize"}

C4_BadPostRejected ==
    /\ [](\A rec \in Requests :
             C4_Case(rec) => /\ rec.pc = "done"
                             /\ rec.status = 400 /\ rec.code = -32000 /\ rec.kind = "rpc_error"
                             /\ ~rec.created /\ rec.t = 0)
    /\ [][(AnsweredAtOnce /\ C4_Case(resp')) => RegistryUntouched]_vars

C4_Witness ==
    /\ resp.pc = "done" /\ C4_Case(resp) /\ resp.body = "initialize"
    /\ resp.status = 400 /\ Len(objs) = 1

\* C5: an authenticated GET /mcp or DELETE /mcp whose session id is absent or
\* not in the registry is answered 400, is not forwarded, and leaves the
\* registry as it was.
C5_Case(rec) ==
    /\ rec.route \in {"GET /mcp", "DELETE /mcp"} /\ rec.key = ApiKey
    /\ ~Truthy(rec.sid) \/ ~rec.known

C5_UnknownSessionVerbRejected ==
    /\ [](\A rec \in Requests :
             C5_Case(rec) => rec.pc = "done" /\ rec.status = 400 /\ rec.t = 0 /\ ~rec.created)
    /\ [][(AnsweredAtOnce /\ C5_Case(resp')) => RegistryUntouched]_vars

C5_Witness ==
    /\ resp.pc = "done" /\ C5_Case(resp) /\ resp.route = "GET /mcp"
    /\ Truthy(resp.sid) /\ resp.kind = "plain_text" /\ DOMAIN transports # {}

\* C6: once a session has closed, every further authenticated DELETE /mcp with
\* its id gets the same 400 unknown-session answer, is not forwarded, raises
\* no fault and changes nothing in the registry.
C6_Case(rec) ==
    rec.route = "DELETE /mcp" /\ rec.key = ApiKey /\ rec.stale

C6_RepeatedDeleteRejected ==
    /\ [](\A rec \in Requests :
             C6_Case(rec) => /\ rec.pc = "done" /\ rec.status = 400 /\ rec.t = 0
                             /\ ~rec.fault /\ ~rec.escaped /\ rec.answers = 1
                             /\ rec.body # "malformed" => rec.kind = "plain_text")
    /\ [][(AnsweredAtOnce /\ C6_Case(resp')) => RegistryUntouched]_vars

C6_Witness ==
    /\ resp.pc = "done" /\ C6_Case(resp) /\ resp.kind = "plain_text"
    /\ received = MaxRequests /\ Len(objs) = 1

\* C7: the registry holds at most one session per id (no two live transports
\* share an id and each key maps to the transport made for it), and requests
\* that carry the same session id are never forwarded to two different
\* transports.
C7_OneEnginePerId ==
    /\ \A i, j \in 1..Len(objs) :
          (i # j /\ ~objs[i].closed /\ ~objs[j].closed) => objs[i].sid # objs[j].sid
    /\ \A id \in DOMAIN transports :
          transports[id] \in 1..Len(objs) /\ objs[transports[id]].sid = id
    /\ \A r1, r2 \in Requests :
          (Truthy(r1.sid) /\ r1.sid = r2.sid /\ r1.t # 0 /\ r2.t # 0) => r1.t = r2.t

C7_Witness ==
    \E r1, r2 \in inflight :
       /\ r1 # r2 /\ Truthy(r1.sid) /\ r1.sid = r2.sid
       /\ r1.pc = "forwarded" /\ r2.pc = "forwarded" /\ r1.t = r2.t

\* C8: on each /mcp verb a fault raised while forwarding to the engine never
\* leaves the handler, and when no response was sent yet it is answered with
\* the -32603 internal-error envelope.
C8_FaultBecomesInternalError ==
    \A rec \in Requests :
       (rec.route \in McpRoutes /\ rec.fault) =>
          /\ ~rec.escaped
          /\ ~rec.sent => rec.status = 500 /\ rec.code = -32603 /\ rec.kind = "rpc_error"

\* C9: a REST handler that called the SlackService answers 200 exactly when
\* the operation's result is a success and 500 exactly when it is a failure,
\* and the body is that result serialised, error code and detail included.
C9_RestStatusFollowsResult ==
    \A rec \in Requests :
       (rec.route \in RestRoutes /\ rec.pc = "done" /\ rec.calls > 0 /\ ~rec.fault) =>
          LET result == SlackService(rec.op, rec.out).result IN
          /\ rec.calls = 1
          /\ rec.status = 200 <=> result.ok
          /\ rec.status = 500 <=> ~result.ok
          /\ rec.payload = JsonStringify(result)
          /\ JsonField(rec.payload, "ok") = (IF result.ok THEN "true" ELSE "false")
          /\ JsonField(rec.payload, "error") = result.error
          /\ JsonField(rec.payload, "detail") = result.detail

C9_Witness ==
    /\ resp.pc = "done" /\ resp.route = "POST /api/messages/send"
    /\ resp.status = 500 /\ JsonField(resp.payload, "error") = "channel_not_found"

\* C10: a tool call whose SlackService operation returned a failure gets the
\* same successful reply as one that returned a success: a text payload that
\* is the serialised result, with its error code and detail, and no protocol
\* error.
C10_ToolFailureIsResult ==
    \A rec \in Requests :
       (rec.tool # "" /\ rec.pc = "done" /\ ~SlackService(rec.op, rec.out).threw) =>
          LET result == SlackService(rec.op, rec.out).result IN
          /\ rec.op = ToolOp[rec.tool]
          /\ rec.kind = "tool_result" /\ rec.code = 0 /\ rec.status = 200
          /\ rec.payload = JsonStringify(result)
          /\ JsonField(rec.payload, "error") = result.error
          /\ JsonField(rec.payload, "detail") = result.detail

C10_Witness ==
    /\ resp.pc = "done" /\ resp.tool = "open_dm" /\ resp.kind = "tool_result"
    /\ JsonField(resp.payload, "ok") = "false"
    /\ JsonField(resp.payload, "error") = "channel_not_found"

\* C11: an authenticated POST /api/messages/send whose channel or text is
\* missing or empty, and an authenticated GET /api/search whose query is
\* missing or empty, is answered 400 with {ok: false, error: "bad_request",
\* detail: ...}, and no SlackService operation is called for it.
C11_Case(rec) ==
    /\ rec.key = ApiKey /\ rec.body # "malformed"
    /\ \/ /\ rec.route = "POST /api/messages/send"
          /\ rec.params[1] \in {Undefined, ""} \/ rec.params[2] \in {Undefined, ""}
       \/ /\ rec.route = "GET /api/search"
          /\ rec.params[1] \in {Undefined, ""}

C11_InvalidIsBadRequest ==
    \A rec \in Requests :
       C11_Case(rec) =>
          /\ rec.pc = "done" /\ rec.calls = 0
          /\ rec.status = 400
          /\ JsonField(rec.payload, "ok") = "false"
          /\ JsonField(rec.payload, "error") = "bad_request"
          /\ JsonField(rec.payload, "detail") # Undefined

\* C12: no SlackService operation lets a fault escape: whatever its upstream
\* call rejected with, the operation returned a result with ok = false, so
\* the handler or tool that awaited it saw no rejection.
C12_OperationNeverThrows ==
    \A rec \in Requests :
       (rec.pc = "done" /\ rec.calls > 0 /\ rec.op \in SlackOps /\ rec.out.rejected) =>
          /\ ~SlackService(rec.op, rec.out).threw
          /\ ~SlackService(rec.op, rec.out).result.ok
          /\ rec.kind \in {"result", "tool_result"}
          /\ JsonField(rec.payload, "ok") = "false"

\* A transport that had not closed closes in this step.
Closes(t) == ~objs[t].closed /\ objs'[t].closed

\* C13: whenever a transport closes, by a DELETE call, a dropped connection or
\* its engine, and wherever the requests of its session stand (its first call
\* still being bound or forwarded included), the registry loses the entry of
\* that session's id and keeps every other entry as it was.
C13_ClosureRemovesOwnEntry ==
    [][\A t \in 1..Len(objs) :
          Closes(t) =>
             /\ objs[t].sid \in DOMAIN transports
             /\ DOMAIN transports' = (DOMAIN transports) \ {objs[t].sid}
             /\ \A k \in DOMAIN transports' : transports'[k] = transports[k]]_vars

C13_Witness ==
    \E rec \in inflight :
       /\ rec.created /\ rec.pc = "connecting"
       /\ objs[rec.t].closed /\ objs[rec.t].sid \notin DOMAIN transports
       /\ DOMAIN transports # {}

\* C14: the teardown of a session takes effect once: a closed session's id is
\* not in the registry, a step in which no transport newly closes (a repeated
\* close of a closed transport included) removes no entry, and the request
\* that closed a transport again is answered without a fault.
C14_TeardownOnce ==
    /\ [](\A t \in 1..Len(objs) : objs[t].closed => objs[t].sid \notin DOMAIN transports)
    /\ [][(\A t \in 1..Len(objs) : ~Closes(t)) =>
             /\ DOMAIN transports \subseteq DOMAIN transports'
             /\ \A k \in DOMAIN transports : transports'[k] = transports[k]]_vars
    /\ [](\A rec \in Requests :
             rec.again => ~rec.fault /\ ~rec.escaped /\ rec.status = 200 /\ rec.answers = 1)

C14_Witness ==
    /\ resp.pc = "done" /\ resp.again /\ resp.route = "DELETE /mcp"
    /\ DOMAIN transports # {}

\* The requests a step received or moved on.
Handled == {rec \in (inflight' \cup {resp'}) \ (inflight \cup {resp}) : rec.pc # "idle"}

\* The request carries a session id.
Carries(rec) == rec.sid \notin {Undefined, ""}

\* The request was answered by a transport or its engine.
EngineAnswered(rec) ==
    rec.kind \in {"engine_result", "engine_error", "engine_partial", "engine_rpc_error",
                  "tool_result", "tool_is_error"}

\* C15: a step of a request that carries session id A leaves every session
\* with another id as it was, its registry entry and its transport alike;
\* and a request carrying A is forwarded to, and answered by, no transport
\* but the one made for A.
C15_SessionsIndependent ==
    /\ [][\A rec \in Handled :
             Carries(rec) =>
                \A t \in 1..Len(objs) :
                   objs[t].sid # rec.sid =>
                      /\ objs'[t] = objs[t]
                      /\ objs[t].sid \in DOMAIN transports <=> objs[t].sid \in DOMAIN transports'
                      /\ objs[t].sid \in DOMAIN transports =>
                            transports'[objs[t].sid] = transports[objs[t].sid]]_vars
    /\ [](\A rec \in Requests :
             Carries(rec) =>
                /\ rec.t # 0 => rec.t \in 1..Len(objs) /\ objs[rec.t].sid = rec.sid
                /\ EngineAnswered(rec) => rec.t # 0)

C15_Witness ==
    /\ resp.pc = "done" /\ resp.route = "DELETE /mcp" /\ resp.kind = "engine_result"
    /\ ~resp.again /\ objs[resp.t].closed
    /\ \E id \in DOMAIN transports : id # resp.sid /\ ~objs[transports[id]].closed

\* C16: a handler that found its session id in the registry got that id's
\* transport, never undefined, whatever removals happen around it; one that
\* did not find it forwarded nothing. A request is only ever forwarded to a
\* transport that exists.
C16_LookupAtomic ==
    \A rec \in Requests :
       /\ rec.pc \in {"forwarded", "await_tool"} => rec.t \in 1..Len(objs)
       /\ (rec.route \in McpRoutes /\ rec.key = ApiKey /\ rec.body # "malformed"
             /\ Carries(rec) /\ rec.known) =>
              rec.t \in 1..Len(objs) /\ objs[rec.t].sid = rec.sid
       /\ (Carries(rec) /\ ~rec.known) => rec.t = 0 /\ rec.pc = "done"

C16_Witness ==
    \E rec \in inflight :
       /\ rec.pc = "forwarded" /\ Carries(rec) /\ rec.known
       /\ rec.sid \notin DOMAIN transports /\ objs[rec.t].closed

\* C18: a session whose transport has not closed has its id in the registry,
\* mapped to that transport; and an entry leaves the registry only in a step
\* in which the transport it maps to closes.
C18_NoSessionOutlivesEntry ==
    /\ [](\A t \in 1..Len(objs) :
             ~objs[t].closed => objs[t].sid \in DOMAIN transports /\ transports[objs[t].sid] = t)
    /\ [][\A id \in (DOMAIN transports) \ (DOMAIN transports') :
             transports[id] \in 1..Len(objs) /\ Closes(transports[id])]_vars

C18_Witness ==
    /\ Len(objs) = 2
    /\ objs[1].closed /\ objs[1].sid \notin DOMAIN transports
    /\ ~objs[2].closed /\ objs[2].sid \in DOMAIN transports

\* The ids a step added to the registry.
Added == (DOMAIN transports') \ (DOMAIN transports)

\* An authenticated POST /mcp without a session id and with an initialize body.
C19_Case(rec) ==
    /\ rec.route = "POST /mcp" /\ rec.key = ApiKey
    /\ rec.sid \in {Undefined, ""} /\ rec.body = "initialize"

\* C19: a step adds an entry to the registry only by receiving an
\* authenticated POST /mcp with no session id and an initialize body, and then
\* it adds exactly one, for a new transport; the step of any other request (a
\* POST with a known session id and an initialize body included) adds none,
\* and no step changes what an existing entry maps to.
C19_OnlyInitializeAdds ==
    [][/\ Added # {} =>
             /\ Cardinality(Added) = 1
             /\ received' = received + 1
             /\ Len(objs') = Len(objs) + 1
             /\ \E rec \in Handled : C19_Case(rec) /\ rec.created /\ rec.t = Len(objs')
                                       /\ transports'[objs'[rec.t].sid] = rec.t
       /\ \A rec \in Handled :
             /\ (received' # received /\ C19_Case(rec)) => Cardinality(Added) = 1
             /\ ~C19_Case(rec) => Added = {} /\ ~rec.created
       /\ \A id \in (DOMAIN transports) \cap (DOMAIN transports') :
             transports'[id] = transports[id]]_vars

C19_Witness ==
    \E rec \in inflight :
       /\ rec.route = "POST /mcp" /\ rec.body = "initialize" /\ Carries(rec) /\ rec.known
       /\ rec.pc = "forwarded" /\ ~rec.created
       /\ Len(objs) = 1 /\ Cardinality(DOMAIN transports) = 1

\* C20: the id a transport reports to its caller is the key the registry holds
\* that transport under: every entry maps an id to a transport that reports
\* that id, and while the session a request created has not closed, the id
\* its transport reports resolves in the registry to that transport.
C20_ReportedIdIsKey ==
    /\ \A id \in DOMAIN transports :
          transports[id] \in 1..Len(objs) /\ objs[transports[id]].sid = id
    /\ \A rec \in Requests :
          (rec.created /\ ~objs[rec.t].closed) =>
             /\ objs[rec.t].sid \in DOMAIN transports
             /\ transports[objs[rec.t].sid] = rec.t

C20_Witness ==
    /\ resp.pc = "done" /\ resp.created /\ resp.kind = "engine_result"
    /\ objs[resp.t].server /\ ~objs[resp.t].closed
    /\ objs[resp.t].sid \in DOMAIN transports /\ transports[objs[resp.t].sid] = resp.t

\* C21: no request is retried: a REST request or a tool call calls at most
\* one SlackService operation, and that operation has made exactly one
\* upstream API call when it returns, whether the call failed or not.
C21_NoRetries ==
    \A rec \in Requests :
       /\ rec.calls <= 1
       /\ rec.api <= rec.calls
       /\ (rec.pc = "done" /\ rec.calls = 1) => rec.api = 1
       /\ rec.pc \in {"await_slack", "await_tool"} => rec.calls = 1 /\ rec.api = 0

C21_Witness ==
    /\ resp.pc = "done" /\ resp.out.rejected /\ resp.calls = 1 /\ resp.api = 1
    /\ resp.route = "POST /mcp" /\ resp.tool = "search_messages"
    /\ \E rec \in inflight : rec.pc = "await_slack"

\* C22: a tool call whose handler ran called exactly one SlackService
\* operation, the one of its tool (send_message: sendMessage, read_dm_history:
\* getChannelHistory, search_messages: searchMessages, find_user: searchUsers,
\* open_dm: openDm), and every connected engine has the same five tools.
C22_ToolCallsItsOperation ==
    /\ \A rec \in Requests :
          rec.tool # "" =>
             /\ rec.calls = 1
             /\ rec.tool = rec.name
             /\ rec.tool = "send_message" => rec.op = "sendMessage"
             /\ rec.tool = "read_dm_history" => rec.op = "getChannelHistory"
             /\ rec.tool = "search_messages" => rec.op = "searchMessages"
             /\ rec.tool = "find_user" => rec.op = "searchUsers"
             /\ rec.tool = "open_dm" => rec.op = "openDm"
             /\ rec.op \in SlackOps
    /\ \A t \in 1..Len(objs) :
          objs[t].server =>
             objs[t].tools = {"send_message", "read_dm_history", "search_messages",
                              "find_user", "open_dm"}

C22_Witness ==
    /\ Len(objs) = 2 /\ objs[1].server /\ objs[2].server /\ objs[1].tools = objs[2].tools
    /\ \E rec \in inflight :
          rec.t = 2 /\ rec.pc = "await_tool" /\ rec.tool = "find_user" /\ rec.op = "searchUsers"

\* The tool call lacks a parameter its tool declares as required.
C23_Case(rec) ==
    /\ rec.route = "POST /mcp" /\ rec.params # <<>>
    /\ \/ rec.name = "send_message" /\ (rec.params[1] = Undefined \/ rec.params[2] = Undefined)
       \/ rec.name \in {"read_dm_history", "search_messages", "find_user", "open_dm"}
             /\ rec.params[1] = Undefined

\* C23: a tool call that lacks a required parameter is answered with a
\* protocol error and calls no SlackService operation, and the step that
\* answers it leaves the registry and the session's transport as they were.
C23_MissingParamRejected ==
    /\ [](\A rec \in Requests :
             C23_Case(rec) =>
                /\ rec.pc = "done" /\ rec.kind = "engine_rpc_error" /\ rec.code # 0
                /\ rec.calls = 0 /\ rec.tool = "" /\ ~rec.fault /\ ~rec.escaped)
    /\ [][\A rec \in Handled : C23_Case(rec) => RegistryUntouched]_vars

C23_Witness ==
    /\ resp.pc = "done" /\ C23_Case(resp) /\ resp.name = "send_message"
    /\ resp.params = <<"X01", Undefined>>
    /\ resp.sid \in DOMAIN transports /\ ~objs[resp.t].closed

\* The call names a tool that is not registered.
C24_Case(rec) ==
    /\ rec.route = "POST /mcp" /\ rec.name # ""
    /\ rec.name \notin {"send_message", "read_dm_history", "search_messages",
                          "find_user", "open_dm"}

\* C24: a call on a session that names a tool that is not registered is
\* answered with a protocol error for that call alone: it calls nothing and
\* raises no fault, the step that answers it leaves the registry and every
\* transport as they were, and each request carrying a registered id is still
\* forwarded to the transport of that id.
C24_UnknownToolNotFatal ==
    /\ [](\A rec \in Requests :
             C24_Case(rec) =>
                /\ rec.pc = "done" /\ rec.kind = "engine_rpc_error" /\ rec.code # 0
                /\ rec.calls = 0 /\ ~rec.fault /\ ~rec.escaped /\ rec.answers = 1)
    /\ [][\A rec \in Handled : C24_Case(rec) => RegistryUntouched]_vars
    /\ [](\A rec \in Requests :
             (rec.route = "POST /mcp" /\ rec.key = ApiKey /\ rec.body # "malformed"
                /\ Carries(rec) /\ rec.known) =>
                   rec.t \in 1..Len(objs) /\ objs[rec.t].sid = rec.sid)

C24_Witness ==
    /\ resp.pc = "done" /\ C24_Case(resp) /\ objs[resp.t].server
    /\ resp.sid \in DOMAIN transports /\ ~objs[resp.t].closed
    /\ \E rec \in inflight : rec.sid = resp.sid /\ rec.t = resp.t /\ rec.pc = "forwarded"

\* C25: when the optional size is absent the operation is passed 20 (limit
\* for REST history and read_dm_history, count for REST search and
\* search_messages); when it is given as a decimal integer that integer is
\* passed.
C25_Sized(rec) ==
    /\ rec.calls = 1
    /\ \/ rec.route \in {"GET /api/channels/:channelId/history", "GET /api/search"}
       \/ rec.tool \in {"read_dm_history", "search_messages"}

C25_DefaultIs20 ==
    \A rec \in Requests :
       C25_Sized(rec) =>
          /\ rec.passed[1] = rec.params[1]
          /\ rec.params[2] = Undefined => rec.passed[2] = "20"
          /\ rec.params[2] = "5" => rec.passed[2] = "5"
          /\ rec.op \in {"getChannelHistory", "searchMessages"}

C25_Witness ==
    /\ \E rec \in inflight :
          rec.route = "GET /api/search" /\ rec.params[2] = Undefined /\ rec.passed[2] = "20"
    /\ \E rec \in inflight :
          rec.tool = "read_dm_history" /\ rec.params[2] = "5" /\ rec.passed[2] = "5"

\* The requests suspended on a SlackService operation.
AwaitingUpstream == {rec \in inflight : rec.pc \in {"await_slack", "await_tool"}}

C27_HealthOpenApiGated ==
    \A rec \in Requests :
       /\ (rec.route = "GET /health" /\ rec.body # "malformed") =>
             /\ rec.pc = "done" /\ rec.status = 200 /\ rec.calls = 0
             /\ JsonField(rec.payload, "ok") = "true"
             /\ JsonField(rec.payload, "status") = "healthy"
       /\ (rec.route \in RestRoutes
             /\ (rec.calls > 0 \/ rec.escaped \/ rec.kind \in {"bad_request", "result"})) =>
             rec.key = ApiKey

C27_Witness ==
    /\ resp.pc = "done" /\ resp.route = "GET /health" /\ resp.key = "wrong-key"
    /\ resp.status = 200 /\ JsonField(resp.payload, "status") = "healthy"
    /\ \E rec \in inflight : rec.route \in RestRoutes /\ rec.pc = "await_slack"

\* C28: a session can close while one of its tool calls waits for its
\* SlackService operation: the closure is not held back, it removes the
\* registry entry and leaves the call suspended; the operation can still
\* settle afterwards, and the step in which it does changes no registry entry
\* and creates no transport.
C28_NoCancellation ==
    /\ [](\A rec \in inflight :
             (rec.pc = "await_tool" /\ Running) =>
                /\ ~objs[rec.t].closed => ENABLED TransportClose(rec.t)
                /\ ENABLED ToolReturn(rec))
    /\ [][\A rec \in inflight :
             (rec.pc = "await_tool" /\ Closes(rec.t)) =>
                /\ rec \in inflight'
                /\ objs[rec.t].sid \notin DOMAIN transports']_vars
    /\ [][\A rec \in Handled :
             (rec.tool # "" /\ rec.pc = "done") => RegistryUntouched]_vars

C28_Witness ==
    /\ resp.pc = "done" /\ resp.tool = "send_message" /\ resp.kind = "tool_result"
    /\ resp.api = 1
    /\ objs[resp.t].closed /\ resp.sid \notin DOMAIN transports
    /\ DOMAIN transports # {}

\* C29: when the upstream call of an operation failed, the operation's result
\* is a failure that carries as error the rejection's data.error when it has
\* one and "slack_error" otherwise, and as detail the rejection's message.
C29_FailureCarriesCode ==
    \A rec \in Requests :
       (rec.pc = "done" /\ rec.calls > 0 /\ rec.out.rejected) =>
          /\ JsonField(rec.payload, "ok") = "false"
          /\ JsonField(rec.payload, "error") =
                (IF rec.out.data_error \notin {Undefined, ""} THEN rec.out.data_error
                 ELSE "slack_error")
          /\ JsonField(rec.payload, "detail") = rec.out.message

\* C30: every /mcp request gets at most one response: a request rejected by
\* the handler (401, 400) was not forwarded and made no session, and the
\* -32603 reply is only sent for a request whose response had not started.
C30_AtMostOneResponse ==
    \A rec \in Requests :
       rec.route \in McpRoutes =>
          /\ rec.answers <= 1
          /\ rec.pc # "done" => rec.answers = 0
          /\ rec.kind \in {"parse_error", "plain_text"} \/ (rec.kind = "rpc_error" /\ rec.code = -32000) =>
                rec.t = 0 /\ ~rec.created /\ rec.calls = 0 /\ rec.status \in {400, 401}
          /\ rec.code = -32603 => ~rec.sent /\ rec.fault

C30_Witness ==
    /\ resp.pc = "done" /\ resp.route = "POST /mcp" /\ resp.fault /\ resp.sent
    /\ resp.kind = "engine_partial" /\ resp.answers = 1 /\ resp.code = 0

\* C31: a request that set up a new session and ended with the -32603
\* internal-error reply (the fault came while the engine was being bound or
\* while the initialize call was forwarded) leaves no registry entry for the
\* id generated for that session.
C31_FailedSetupLeavesNoEntry ==
    \A rec \in Requests :
       (rec.created /\ rec.pc = "done" /\ rec.code = -32603) =>
          objs[rec.t].sid \notin DOMAIN transports

\* C32: each id in the registry maps to a transport that has an engine bound
\* to it and is not closed, and a request forwarded through a registry lookup
\* was forwarded to a transport whose engine was bound.
C32_RegistryHoldsBoundTransports ==
    /\ \A id \in DOMAIN transports :
          objs[transports[id]].server /\ ~objs[transports[id]].closed
    /\ \A rec \in Requests :
          (rec.pc = "forwarded" /\ ~rec.created) => objs[rec.t].server

\* C33: getChannelHistory and searchMessages call the user-token client when
\* the service was constructed with one and the bot-token client otherwise,
\* sendMessage, searchUsers and openDm always call the bot-token client, and
\* the service's clients never change after construction.
C33_ClientChoice ==
    /\ [][slack' = slack]_vars
    /\ [](slack.client = "xoxb-bot" /\ slack.userClient \in {Undefined, "xoxp-user"})
    /\ [](\A rec \in Requests :
             rec.calls > 0 =>
                /\ rec.op \in {"getChannelHistory", "searchMessages"} =>
                      rec.client = (IF slack.userClient = "xoxp-user" THEN "xoxp-user"
                                    ELSE "xoxb-bot")
                /\ rec.op \in {"sendMessage", "searchUsers", "openDm"} =>
                      rec.client = "xoxb-bot")

C33_Witness ==
    /\ slack.userClient = "xoxp-user"
    /\ resp.pc = "done" /\ resp.op = "searchMessages" /\ resp.client = "xoxp-user"
    /\ \E rec \in inflight : rec.op = "openDm" /\ rec.client = "xoxb-bot"
====
